---- MODULE Spec2Model ----
(***************************************************************************)
(* Model of the PDF rule checker server (src/server/index.js): the         *)
(* POST /api/check-pdf handler, the per-rule LLM checker and the result    *)
(* normalisation.  JavaScript strings that the code inspects (rule texts,  *)
(* LLM status and confidence values) are sequences of one-character        *)
(* strings; fixed message texts are TLA+ strings.                          *)
(***************************************************************************)
EXTENDS Integers, Sequences, FiniteSets, TLC

VARIABLES pc, req, rules, tmpFile, unlinks, extracted, tasks, order, response

vars == <<pc, req, rules, tmpFile, unlinks, extracted, tasks, order, response>>

\* Largest number of elements of a submitted rules array.
MaxRules == 3
\* Longest confidence string the LLM replies with.
MaxConfLen == 3

-----------------------------------------------------------------------------
(* JavaScript string helpers *)

\* The white space String.prototype.trim and parseInt strip; the texts of the
\* model hold no other white space than the space character.
WhiteSpace == {" "}

RECURSIVE TrimStart(_)
TrimStart(s) ==
    IF s # <<>> /\ Head(s) \in WhiteSpace THEN TrimStart(Tail(s)) ELSE s

RECURSIVE TrimEnd(_)
TrimEnd(s) ==
    IF s # <<>> /\ s[Len(s)] \in WhiteSpace
    THEN TrimEnd(SubSeq(s, 1, Len(s) - 1))
    ELSE s

\* String.prototype.trim
Trim(s) == TrimEnd(TrimStart(s))

LowerOf(c) ==
    CASE c = "P" -> "p" [] c = "A" -> "a" [] c = "S" -> "s"
      [] c = "F" -> "f" [] c = "I" -> "i" [] c = "L" -> "l"
      [] c = "M" -> "m" [] c = "Y" -> "y" [] c = "B" -> "b"
      [] c = "E" -> "e" [] c = "D" -> "d"
      [] OTHER -> c

\* String.prototype.toLowerCase
ToLowerCase(s) == [i \in 1..Len(s) |-> LowerOf(s[i])]

DecDigits == {"0", "1", "2", "3", "4", "5", "6", "7", "8", "9"}
HexDigits == DecDigits \cup {"a", "b", "c", "d", "e", "f", "A", "B", "C", "D", "E", "F"}

DigitVal(c) ==
    CASE c = "0" -> 0 [] c = "1" -> 1 [] c = "2" -> 2 [] c = "3" -> 3
      [] c = "4" -> 4 [] c = "5" -> 5 [] c = "6" -> 6 [] c = "7" -> 7
      [] c = "8" -> 8 [] c = "9" -> 9
      [] c \in {"a", "A"} -> 10 [] c \in {"b", "B"} -> 11
      [] c \in {"c", "C"} -> 12 [] c \in {"d", "D"} -> 13
      [] c \in {"e", "E"} -> 14 [] c \in {"f", "F"} -> 15

DigitChar(d) ==
    CASE d = 0 -> "0" [] d = 1 -> "1" [] d = 2 -> "2" [] d = 3 -> "3"
      [] d = 4 -> "4" [] d = 5 -> "5" [] d = 6 -> "6" [] d = 7 -> "7"
      [] d = 8 -> "8" [] d = 9 -> "9"

RECURSIVE NatToString(_)
NatToString(n) ==
    IF n < 10 THEN <<DigitChar(n)>>
    ELSE Append(NatToString(n \div 10), DigitChar(n % 10))

\* Number::toString of an integer
NumberToString(n) == IF n < 0 THEN <<"-">> \o NatToString(-n) ELSE NatToString(n)

\* The longest prefix of s made of digits of the radix
RECURSIVE DigitPrefix(_, _)
DigitPrefix(s, digits) ==
    IF s # <<>> /\ Head(s) \in digits
    THEN <<Head(s)>> \o DigitPrefix(Tail(s), digits)
    ELSE <<>>

RECURSIVE DigitsValue(_, _)
DigitsValue(ds, radix) ==
    IF ds = <<>> THEN 0
    ELSE DigitsValue(SubSeq(ds, 1, Len(ds) - 1), radix) * radix + DigitVal(ds[Len(ds)])

NaN == [nan |-> TRUE, val |-> 0]
Num(n) == [nan |-> FALSE, val |-> n]

\* parseInt(string) with no radix argument: leading white space is skipped, a
\* sign is read, a 0x or 0X prefix selects radix 16, the longest digit prefix
\* is converted, and NaN is returned when there is no digit.
ParseInt(str) ==
    LET t      == TrimStart(str)
        signed == t # <<>> /\ Head(t) \in {"-", "+"}
        sign   == IF t # <<>> /\ Head(t) = "-" THEN -1 ELSE 1
        u      == IF signed THEN Tail(t) ELSE t
        hex    == Len(u) >= 2 /\ u[1] = "0" /\ u[2] \in {"x", "X"}
        body   == IF hex THEN Tail(Tail(u)) ELSE u
        ds     == DigitPrefix(body, IF hex THEN HexDigits ELSE DecDigits)
    IN  IF ds = <<>> THEN NaN
        ELSE Num(sign * DigitsValue(ds, IF hex THEN 16 ELSE 10))

Min(a, b) == IF a < b THEN a ELSE b
Max(a, b) == IF a > b THEN a ELSE b

-----------------------------------------------------------------------------
(* JavaScript values *)

Str(s) == [t |-> "str", s |-> s, n |-> 0]
NumVal(k) == [t |-> "num", s |-> <<>>, n |-> k]
Null == [t |-> "null", s |-> <<>>, n |-> 0]
Undefined == [t |-> "undefined", s |-> <<>>, n |-> 0]

\* ToBoolean: undefined, null, the empty string and 0 are falsy
Truthy(v) ==
    CASE v.t = "str" -> v.s # <<>>
      [] v.t = "num" -> v.n # 0
      [] OTHER -> FALSE

\* ToString, as parseInt applies it to its argument
JSToString(v) ==
    CASE v.t = "str" -> v.s
      [] v.t = "num" -> NumberToString(v.n)
      [] v.t = "null" -> <<"n", "u", "l", "l">>
      [] OTHER -> <<"u", "n", "d", "e", "f", "i", "n", "e", "d">>

Pass == <<"p", "a", "s", "s">>
Fail == <<"f", "a", "i", "l">>
EmptyRuleText == <<"E", "m", "p", "t", "y", " ", "r", "u", "l", "e">>

\* Elements a client can put in the rules array: rule texts (empty, blank,
\* padded, plain) and values that are not strings (the falsy null, the
\* truthy 7).
RuleValues ==
    { Str(<<>>), Str(<<" ">>), Str(<<"a">>), Str(<<" ", "b">>), Null, NumVal(7) }

RECURSIVE SeqsUpTo(_, _)
SeqsUpTo(S, n) ==
    IF n = 0 THEN {<<>>}
    ELSE LET shorter == SeqsUpTo(S, n - 1)
         IN  shorter \cup {Append(q, x) : q \in {p \in shorter : Len(p) = n - 1}, x \in S}

\* The rules form field: absent, a string that is not JSON, JSON text of a
\* value that is not an array, or JSON text of an array.
RulesFields(maxRules) ==
    {[k |-> kind, arr |-> <<>>] : kind \in {"undefined", "invalid", "null", "object"}}
        \cup {[k |-> "array", arr |-> a] : a \in SeqsUpTo(RuleValues, maxRules)}

\* The rules field of a request that submits exactly one rule
SingleRuleFields == {[k |-> "array", arr |-> <<r>>] : r \in RuleValues}

FileKinds == {"none", "pdf", "nonpdf"}

NoRequest == [file |-> "none", rules |-> [k |-> "undefined", arr |-> <<>>]]

\* The status field of an LLM reply object
StatusValues ==
    { Undefined, Str(<<>>), Str(Pass), Str(<<"P", "A", "S", "S">>),
      Str(<<"F", "a", "i", "l">>), Str(<<"m", "a", "y", "b", "e">>), NumVal(1) }

ConfAlphabet == {"-", "0", "1", "9", ".", "x", " "}

\* The confidence field of an LLM reply object: absent, a JSON number, or any
\* string over ConfAlphabet of at most MaxConfLen characters.
ConfNumbers == {-5, 0, 42, 100, 101, 150}
ConfValues ==
    {Undefined, Null} \cup {NumVal(k) : k \in ConfNumbers}
        \cup {Str(s) : s \in SeqsUpTo(ConfAlphabet, MaxConfLen)}

NoReply == [kind |-> "none", status |-> Undefined, evidence |-> "",
            reasoning |-> "", confidence |-> Undefined]

\* What one call of the LLM service can end in: the call throws, the content
\* is not JSON, the content is JSON null, or the content is a JSON object.
AllReplies ==
    {[NoReply EXCEPT !.kind = k] : k \in {"throw", "badjson", "null"}}
        \cup [kind : {"object"}, status : StatusValues, evidence : {"", "quote"},
              reasoning : {"", "because"}, confidence : ConfValues]

ObjReply(st, ev, re, co) ==
    [kind |-> "object", status |-> st, evidence |-> ev, reasoning |-> re, confidence |-> co]

\* The replies used when several rules are in flight at once
LLMReplies ==
    { [NoReply EXCEPT !.kind = "throw"],
      [NoReply EXCEPT !.kind = "badjson"],
      ObjReply(Str(Pass), "quote", "because", NumVal(42)),
      ObjReply(Str(<<"P", "A", "S", "S">>), "quote", "", Str(<<"1", "9", "9">>)),
      ObjReply(Str(<<"m", "a", "y", "b", "e">>), "", "because", NumVal(-5)),
      ObjReply(Undefined, "", "", Undefined) }

NoResult == [rule |-> Undefined, status |-> <<>>, evidence |-> "",
             reasoning |-> <<>>, confidence |-> 0]

NoResponse == [code |-> 0, error |-> "", message |-> "", results |-> <<>>, tmpLeft |-> FALSE]

-----------------------------------------------------------------------------
(* checkRuleWithLLM: the normalisation of one LLM reply *)

\* parseInt(x) || 0
OrZero(p) == IF p.nan \/ p.val = 0 THEN 0 ELSE p.val

\* Faulty variant of ClampConfidence: the lower bound Math.max(0, ...) is missing.
ClampConfidenceNoFloor(c) == Min(100, OrZero(ParseInt(JSToString(c))))

\* Math.max(0, Math.min(100, parseInt(result.confidence) || 0))
ClampConfidence(c) == Max(0, Min(100, OrZero(ParseInt(JSToString(c)))))

\* (result.status || 'fail'); .toLowerCase() exists on strings only
StatusOrFail(st) == IF Truthy(st) THEN st ELSE Str(Fail)

\* Faulty variant of ErrorResult: the catch block reports the default evidence
\* of the try block.
ErrorResultDefaultEvidence(rule, msg) ==
    [rule |-> rule, status |-> Fail, evidence |-> "No evidence found",
     reasoning |-> <<"Failed to analyze: ", msg>>, confidence |-> 0]

\* The catch block of checkRuleWithLLM
ErrorResult(rule, msg) ==
    [rule |-> rule, status |-> Fail, evidence |-> "Error processing rule",
     reasoning |-> <<"Failed to analyze: ", msg>>, confidence |-> 0]

\* The returned object of the try block
NormalizedResult(rule, r) ==
    [rule |-> rule,
     status |-> ToLowerCase(StatusOrFail(r.status).s),
     evidence |-> IF r.evidence # "" THEN r.evidence ELSE "No evidence found",
     reasoning |-> IF r.reasoning # "" THEN <<r.reasoning>> ELSE <<"Unable to determine">>,
     confidence |-> ClampConfidence(r.confidence)]

\* What the try block throws on reply r ("" when it returns)
ThrownBy(r) ==
    CASE r.kind = "throw" -> "Connection error."
      [] r.kind = "badjson" -> "Unexpected token in JSON"
      [] r.kind = "null" -> "Cannot read properties of null (reading 'status')"
      [] StatusOrFail(r.status).t # "str" -> "toLowerCase is not a function"
      [] OTHER -> ""

\* The value checkRuleWithLLM(pdfText, rule) resolves to when the service
\* call ends in r
CheckRuleWithLLM(rule, r) ==
    IF ThrownBy(r) # "" THEN ErrorResult(rule, ThrownBy(r)) ELSE NormalizedResult(rule, r)

-----------------------------------------------------------------------------
(* The rules.map callback *)

\* Faulty variant of IsBlankRule: the rule is not trimmed.
IsBlankRuleNoTrim(rule) == ~Truthy(rule) \/ Len(rule.s) = 0

\* !rule || rule.trim().length === 0, for a rule that has a trim method
IsBlankRule(rule) == ~Truthy(rule) \/ Len(Trim(rule.s)) = 0

\* rule.trim is not a function: a truthy value that is not a string
TrimThrows(rule) == Truthy(rule) /\ rule.t # "str"

\* Faulty variant of RuleOrEmpty: the rule is echoed as submitted.
RuleEcho(rule) == rule

\* rule || 'Empty rule'
RuleOrEmpty(rule) == IF Truthy(rule) THEN rule ELSE Str(EmptyRuleText)

EmptyRuleResult(rule) ==
    [rule |-> RuleOrEmpty(rule), status |-> Fail, evidence |-> "No rule provided",
     reasoning |-> <<"Rule is empty or invalid">>, confidence |-> 0]

\* The promise the callback returns for one rule, as it stands when rules.map
\* returns: rejected (trim threw), fulfilled (blank rule), or pending on the
\* LLM call that checkRuleWithLLM has issued.
StartTask(rule) ==
    IF TrimThrows(rule)
    THEN [state |-> "rejected", called |-> FALSE, reply |-> NoReply, value |-> NoResult]
    ELSE IF IsBlankRule(rule)
    THEN [state |-> "fulfilled", called |-> FALSE, reply |-> NoReply,
          value |-> EmptyRuleResult(rule)]
    ELSE [state |-> "pending", called |-> TRUE, reply |-> NoReply, value |-> NoResult]

\* Faulty variant of PromiseAllValues: the values in the order in which the
\* promises settled.
PromiseAllValuesInSettleOrder(ts, settled) ==
    [i \in 1..Len(ts) |-> ts[settled[i]].value]

\* The array Promise.all resolves to: the value of each promise at the index
\* of its promise, whatever the order in which the promises settled.
PromiseAllValues(ts, settled) == [i \in 1..Len(ts) |-> ts[i].value]

-----------------------------------------------------------------------------
(* The POST /api/check-pdf handler *)

\* res.status(code).json(...): tmpLeft records whether the temporary file is
\* still on disk at the moment the response is sent.
Send(code, error, message, results, tmp) ==
    [code |-> code, error |-> error, message |-> message, results |-> results,
     tmpLeft |-> tmp]

\* JSON.parse(req.body.rules) throws
RulesParseThrows(field) == field.k = "invalid"

\* Faulty variant of RulesRejected: the rules.length === 0 test is missing.
RulesRejectedAllowsEmpty(field) == field.k # "array"

\* !rules || !Array.isArray(rules) || rules.length === 0
RulesRejected(field) == field.k # "array" \/ Len(field.arr) = 0

\* Faulty variant of CatchUnlinks: the catch block never removes the file.
CatchNeverUnlinks(exists) == FALSE

\* The catch block's guard, if (req.file && fs.existsSync(req.file.path)):
\* whether the catch block calls fs.unlinkSync, given whether the file exists
CatchUnlinks(exists) == exists

Init ==
    /\ pc = "idle"
    /\ req = NoRequest
    /\ rules = <<>>
    /\ tmpFile = FALSE
    /\ unlinks = 0
    /\ extracted = "none"
    /\ tasks = <<>>
    /\ order = <<>>
    /\ response = NoResponse

\* upload.single('pdf'): the multipart body is read, the file (if any) is
\* written under uploads/ and the handler is called. No fileFilter is
\* configured, so a file of any type is stored.
Upload(files, fields) ==
    /\ pc = "idle"
    /\ \E file \in files, field \in fields :
          /\ req' = [file |-> file, rules |-> field]
          /\ tmpFile' = (file # "none")
    /\ pc' = "handler"
    /\ UNCHANGED <<rules, unlinks, extracted, tasks, order, response>>

\* The handler from its entry to the first await (pdfParse), or to the 400
\* response of a validation failure.
HandlerStart ==
    /\ pc = "handler"
    /\ IF req.file = "none"
       THEN /\ response' = Send(400, "No PDF file uploaded", "", <<>>, tmpFile)
            /\ pc' = "done"
            /\ UNCHANGED <<rules, tmpFile, unlinks, extracted>>
       ELSE IF RulesParseThrows(req.rules)
       THEN /\ tmpFile' = FALSE
            /\ unlinks' = unlinks + 1
            /\ response' = Send(400, "Invalid rules format", "", <<>>, tmpFile')
            /\ pc' = "done"
            /\ UNCHANGED <<rules, extracted>>
       ELSE IF RulesRejected(req.rules)
       THEN /\ tmpFile' = FALSE
            /\ unlinks' = unlinks + 1
            /\ response' = Send(400, "At least one rule is required", "", <<>>, tmpFile')
            /\ pc' = "done"
            /\ UNCHANGED <<rules, extracted>>
       ELSE /\ rules' = req.rules.arr
            /\ extracted' = "running"
            /\ pc' = "extracting"
            /\ UNCHANGED <<tmpFile, unlinks, response>>
    /\ UNCHANGED <<req, tasks, order>>

\* What pdfParse can end in for the stored file: it throws, or it returns a
\* text that is blank or not. A file that is not a PDF makes it throw.
ParseOutcomes(file) == IF file = "pdf" THEN {"throw", "blank", "text"} ELSE {"throw"}

\* The indexes of the promises that are settled when rules.map returns
RECURSIVE SettledAtStart(_, _)
SettledAtStart(ts, i) ==
    IF i > Len(ts) THEN <<>>
    ELSE (IF ts[i].state # "pending" THEN <<i>> ELSE <<>>) \o SettledAtStart(ts, i + 1)

\* The handler from the completion of pdfParse to the await of Promise.all:
\* the catch block when pdfParse threw, the 400 of a blank text, and otherwise
\* rules.map, which runs every callback up to its first await. A callback
\* that threw rejects Promise.all before any LLM call completes, and the
\* catch block then answers 500.
PdfParseDone(outcome) ==
    /\ pc = "extracting"
    /\ outcome \in ParseOutcomes(req.file)
    /\ extracted' = outcome
    /\ IF outcome = "throw"
       THEN /\ tmpFile' = (tmpFile /\ ~CatchUnlinks(tmpFile))
            /\ unlinks' = IF CatchUnlinks(tmpFile) THEN unlinks + 1 ELSE unlinks
            /\ response' = Send(500, "Failed to process PDF", "Invalid PDF structure",
                                <<>>, tmpFile')
            /\ pc' = "done"
            /\ UNCHANGED <<tasks, order>>
       ELSE IF outcome = "blank"
       THEN /\ tmpFile' = FALSE
            /\ unlinks' = unlinks + 1
            /\ response' = Send(400, "Could not extract text from PDF", "", <<>>, tmpFile')
            /\ pc' = "done"
            /\ UNCHANGED <<tasks, order>>
       ELSE LET ts == [i \in 1..Len(rules) |-> StartTask(rules[i])]
            IN  /\ tasks' = ts
                /\ order' = SettledAtStart(ts, 1)
                /\ IF \E i \in 1..Len(ts) : ts[i].state = "rejected"
                   THEN /\ tmpFile' = FALSE
                        /\ unlinks' = IF CatchUnlinks(FALSE) THEN unlinks + 2 ELSE unlinks + 1
                        /\ response' = Send(500, "Failed to process PDF",
                                            "rule.trim is not a function", <<>>, tmpFile')
                        /\ pc' = "done"
                   ELSE /\ tmpFile' = FALSE
                        /\ unlinks' = unlinks + 1
                        /\ pc' = "awaiting"
                        /\ UNCHANGED response
    /\ UNCHANGED <<req, rules>>

\* The pending LLM call of rule i ends in one of the given replies:
\* checkRuleWithLLM resolves and the promise of rule i is fulfilled with its
\* value.
LlmComplete(i, replies) ==
    /\ i \in 1..Len(tasks)
    /\ tasks[i].state = "pending"
    /\ \E r \in replies :
          tasks' = [tasks EXCEPT ![i] = [state |-> "fulfilled", called |-> TRUE,
                                         reply |-> r,
                                         value |-> CheckRuleWithLLM(rules[i], r)]]
    /\ order' = Append(order, i)
    /\ UNCHANGED <<pc, req, rules, tmpFile, unlinks, extracted, response>>

\* Every promise is fulfilled: Promise.all resolves and res.json({ results })
\* answers 200.
PromiseAllResolve ==
    /\ pc = "awaiting"
    /\ \A i \in 1..Len(tasks) : tasks[i].state = "fulfilled"
    /\ response' = Send(200, "", "", PromiseAllValues(tasks, order), tmpFile)
    /\ pc' = "done"
    /\ UNCHANGED <<req, rules, tmpFile, unlinks, extracted, tasks, order>>

Next ==
    \/ Upload(FileKinds, RulesFields(MaxRules))
    \/ HandlerStart
    \/ \E outcome \in {"throw", "blank", "text"} : PdfParseDone(outcome)
    \/ \E i \in 1..MaxRules : LlmComplete(i, LLMReplies)
    \/ PromiseAllResolve

Spec == Init /\ [][Next]_vars

\* One request that submits a single rule, with every reply of the LLM service
NextNormalize ==
    \/ Upload({"pdf"}, SingleRuleFields)
    \/ HandlerStart
    \/ PdfParseDone("text")
    \/ LlmComplete(1, AllReplies)
    \/ PromiseAllResolve

SpecNormalize == Init /\ [][NextNormalize]_vars

-----------------------------------------------------------------------------
(* Properties *)

Responded == response.code # 0
Results == response.results
LlmCalls == Cardinality({i \in 1..Len(tasks) : tasks[i].called})

\* A rule text made of white space only (the empty text included)
BlankText(v) == v.t = "str" /\ \A k \in 1..Len(v.s) : v.s[k] = " "

\* C1: a 200 response holds one result per submitted rule, and the i-th result
\* is the value computed for the i-th rule, whatever the order in which the
\* per-rule LLM calls completed.
C1_ResultsInInputOrder ==
    response.code = 200 =>
        /\ Len(Results) = Len(rules)
        /\ \A i \in 1..Len(rules) :
              /\ Results[i] = tasks[i].value
              /\ Results[i].rule = (IF Truthy(rules[i]) THEN rules[i] ELSE Str(EmptyRuleText))

\* Two rules whose LLM calls completed in the reverse of the input order, with
\* different results, have been answered.
C1_Witness ==
    /\ response.code = 200
    /\ Len(rules) >= 2
    /\ tasks[1].called /\ tasks[2].called
    /\ \E a, b \in 1..Len(order) : a < b /\ order[a] = 2 /\ order[b] = 1
    /\ Results[1].status # Results[2].status

\* C2: once a request whose file was stored has been answered (200, 400 or
\* 500), the temporary file has been removed by exactly one unlink, and it was
\* already removed when the response was sent; no path unlinks twice.
C2_TempFileRemovedOnce ==
    /\ unlinks <= 1
    /\ (Responded /\ req.file # "none") =>
          /\ unlinks = 1
          /\ ~tmpFile
          /\ ~response.tmpLeft

\* A stored file whose extraction threw has been answered with 500.
C2_Witness ==
    /\ response.code = 500
    /\ req.file # "none"
    /\ extracted = "throw"
    /\ unlinks = 1

\* C3: every result of a 200 response has status "pass" or "fail", whatever
\* the LLM replied.
C3_StatusPassOrFail ==
    \A i \in 1..Len(Results) : Results[i].status \in {Pass, Fail}

NoDigit(s) == \A k \in 1..Len(s) : s[k] \notin DecDigits

\* A reply the try block of checkRuleWithLLM returns from: a JSON object whose
\* status is absent or a string (any other reply ends in the catch block,
\* whose result has confidence 0)
Normalised(r) == r.kind = "object" /\ r.status.t \in {"undefined", "str"}

C5_BlankRuleShortCircuits ==
    /\ \A i \in 1..Len(tasks) :
          /\ BlankText(rules[i]) =>
                /\ ~tasks[i].called
                /\ tasks[i].state = "fulfilled"
                /\ tasks[i].value.status = Fail
                /\ tasks[i].value.confidence = 0
                /\ tasks[i].value.reasoning = <<"Rule is empty or invalid">>
          /\ tasks[i].called => (rules[i].t = "str" /\ ~BlankText(rules[i]))
    /\ response.code = 200 =>
          \A i \in 1..Len(rules) :
              BlankText(rules[i]) =>
                 /\ Results[i].status = Fail
                 /\ Results[i].confidence = 0
                 /\ Results[i].reasoning = <<"Rule is empty or invalid">>

\* A request with a white-space rule and a rule that went to the LLM has been
\* answered.
C5_Witness ==
    /\ response.code = 200
    /\ \E i, j \in 1..Len(rules) :
          /\ rules[i] = Str(<<" ">>)
          /\ ~tasks[i].called
          /\ tasks[j].called

\* The reply of a failed call: the service call threw, or its content is not JSON
FailedReply(r) == r.kind \in {"throw", "badjson"}

\* C6: a rule whose LLM call throws or whose reply is not JSON is fulfilled
\* (checkRuleWithLLM does not raise) with status "fail", evidence "Error
\* processing rule", confidence 0; the result of every other rule is what its
\* own reply gives, and the response is not turned into an error.
C6_CallFailureContained ==
    /\ \A i \in 1..Len(tasks) :
          (tasks[i].called /\ FailedReply(tasks[i].reply)) =>
              /\ tasks[i].state = "fulfilled"
              /\ tasks[i].value.rule = rules[i]
              /\ tasks[i].value.status = Fail
              /\ tasks[i].value.evidence = "Error processing rule"
              /\ tasks[i].value.confidence = 0
              /\ \A j \in 1..Len(tasks) :
                    (j # i /\ tasks[j].called /\ tasks[j].state = "fulfilled"
                        /\ ~FailedReply(tasks[j].reply)) =>
                            tasks[j].value = CheckRuleWithLLM(rules[j], tasks[j].reply)
    /\ (pc = "done" /\ extracted = "text" /\ \A i \in 1..Len(tasks) : tasks[i].state = "fulfilled") =>
          /\ response.code = 200
          /\ \A i \in 1..Len(tasks) :
                FailedReply(tasks[i].reply) => Results[i].evidence = "Error processing rule"

\* A request in which one call threw and another rule passed has been answered.
C6_Witness ==
    /\ response.code = 200
    /\ \E i, j \in 1..Len(tasks) :
          /\ tasks[i].reply.kind = "throw"
          /\ Results[i].evidence = "Error processing rule"
          /\ Results[j].status = Pass
          /\ Results[j].confidence = 42

\* C7: a request whose uploaded file is not a PDF is answered 400, and neither
\* the text extraction nor an LLM call is attempted for it.
C7_NonPdfRejected ==
    (req.file = "nonpdf" /\ pc # "idle") =>
        /\ extracted = "none"
        /\ LlmCalls = 0
        /\ Responded => response.code = 400

\* The requests that validation rejects: no file, a rules field that is not
\* JSON, or rules that are no array or an empty array
InvalidRequest ==
    /\ pc # "idle"
    /\ \/ req.file = "none"
       \/ req.rules.k \in {"invalid", "null", "object", "undefined"}
       \/ (req.rules.k = "array" /\ req.rules.arr = <<>>)

\* C8: an invalid request, and a request whose extracted text is blank, is
\* answered 400 with an error text, and no LLM call is issued at any point of
\* such a request.
C8_InvalidRequest400 ==
    (InvalidRequest \/ extracted = "blank") =>
        /\ LlmCalls = 0
        /\ tasks = <<>>
        /\ pc = "done" => (response.code = 400 /\ response.error # "")
        /\ InvalidRequest => extracted = "none"

\* A request whose extracted text is blank has been answered 400 without any
\* LLM call.
C8_Witness ==
    /\ response.code = 400
    /\ extracted = "blank"
    /\ req.rules.k = "array"
    /\ LlmCalls = 0

\* C9: a request whose rules are a non-empty array, whatever its elements,
\* and whose extracted text is not blank is answered 200 with one result per
\* rule.
C9_OnlyValidationAborts ==
    (Responded /\ req.rules.k = "array" /\ req.rules.arr # <<>> /\ extracted = "text") =>
        /\ response.code = 200
        /\ Len(Results) = Len(req.rules.arr)

\* C10 as stated: the rule field of every result equals the rule text
\* submitted at the same index, the empty text included.
C10_RuleFieldEqualsSubmitted ==
    response.code = 200 =>
        \A i \in 1..Len(rules) : rules[i].t = "str" => Results[i].rule = rules[i]

\* C10 amended: the rule field equals the submitted text for every text that
\* is not empty (white-space texts included); for the empty text it is
\* "Empty rule", with status "fail", confidence 0 and reasoning "Rule is empty
\* or invalid".
C10_RuleFieldOrPlaceholder ==
    response.code = 200 =>
        \A i \in 1..Len(rules) :
            rules[i].t = "str" =>
                IF rules[i].s # <<>>
                THEN Results[i].rule = rules[i]
                ELSE /\ Results[i].rule = Str(EmptyRuleText)
                     /\ Results[i].status = Fail
                     /\ Results[i].confidence = 0
                     /\ Results[i].reasoning = <<"Rule is empty or invalid">>

\* Three rules with the empty text in the middle have been answered.
C10_Witness ==
    /\ response.code = 200
    /\ rules = <<Str(<<"a">>), Str(<<>>), Str(<<" ", "b">>)>>
    /\ Results[2].rule = Str(EmptyRuleText)
    /\ Results[1].rule = rules[1]
    /\ Results[3].rule = rules[3]

====
